---- MODULE Spec2Model ----
(***************************************************************************)
(* Model of the two agent adapters, examples/agent_claude/agent.py and     *)
(* examples/agent_codex/agent.py: credential materialisation               *)
(* (resolve_source_file, symlink_file, sync_*_auth), command construction  *)
(* and execution (main) and the JSON-lines reducer (run_codex_json_result).*)
(*                                                                         *)
(* Strings are sequences of atoms.  An atom is a whitespace character, a   *)
(* quote character, or a run of other characters (a word of an argument    *)
(* string, a segment of a path; the segments of a path are joined by "/"). *)
(* An atom beginning with "/" is an absolute anchor: a path is absolute    *)
(* iff its first atom is one.                                              *)
(***************************************************************************)
EXTENDS Integers, Sequences, FiniteSets, TLC

VARIABLES
  pc,          \* position of the running adapter process
  mode,        \* which entry point the run exercises (resolve / sync / main / reduce)
  adapter,     \* "claude" or "codex"
  env,         \* os.environ: function from the names that are set to their values
  cwd,         \* working directory of the adapter process
  fs,          \* the filesystem: entry at every path of Nodes
  call,        \* arguments of the resolve_source_file call under study
  result,      \* its return value
  source_map,  \* sync_*_auth: sequence of [dest, src] in dict order
  idx,         \* sync_*_auth: next position of the loop over source_map
  linked,      \* sync_*_auth: the list `linked`
  missing,     \* sync_*_auth: the list `missing`
  last,        \* the latest loop iteration: dest, src, the filesystem before it, its report
  runs,        \* completed runs of sync_*_auth
  after1,      \* filesystem before and after the first run, and its reports
  out,         \* standard output of the adapter: the lines printed so far
  onPath,      \* whether shutil.which finds the external binary
  promptFile,  \* what /code/prompt.json holds
  prompt,      \* the value read_prompt returned
  cmd,         \* the command vector
  json_mode,   \* codex: the JSON mode main settled on
  started,     \* subprocesses started so far
  exitcode,    \* <<c>> once the subprocess has exited with code c
  ret,         \* <<c>> once main (or run_codex_json_result) has returned c
  budget,      \* lines the subprocess may still write
  stream,      \* the lines read from the subprocess so far
  events,      \* run_codex_json_result: the list `events`
  non_json_lines  \* run_codex_json_result: the counter `non_json_lines`

procVars == <<mode, adapter, cwd>>
callVars == <<call, result>>
syncVars == <<source_map, idx, linked, missing, last, runs, after1>>
mainVars == <<onPath, promptFile, prompt, cmd, json_mode>>
runVars  == <<started, exitcode, ret, budget, stream, events, non_json_lines>>

vars == <<pc, env, fs, out, procVars, callVars, syncVars, mainVars, runVars>>

----------------------------------------------------------------------------
(* Bounds *)

\* invocations of sync_*_auth against the same home directory
MaxRuns == 2
\* lines the subprocess writes when run_codex_json_result is studied on its own
MaxLines == 3
\* lines the subprocess writes in a run of the whole of main
MainLines == 1

----------------------------------------------------------------------------
(* Strings *)

Whitespace == {" ", "\t"}

\* str.strip(): drop leading, then trailing, whitespace
RECURSIVE lstrip(_)
lstrip(s) ==
  IF s # <<>> /\ Head(s) \in Whitespace THEN lstrip(Tail(s)) ELSE s

RECURSIVE rstrip(_)
rstrip(s) ==
  IF s # <<>> /\ s[Len(s)] \in Whitespace THEN rstrip(SubSeq(s, 1, Len(s) - 1)) ELSE s

strip(s) == rstrip(lstrip(s))

\* os.getenv(name, default)
getenv(e, name, default) == IF name \in DOMAIN e THEN e[name] ELSE default

\* os.environ[name] = value
setenv(e, name, value) ==
  [x \in (DOMAIN e) \cup {name} |-> IF x = name THEN value ELSE e[x]]

----------------------------------------------------------------------------
(* Paths *)

ClaudeHome == <<"/var/tmp/claude-home">>
CodexHome  == <<"/var/tmp/codex-home">>

Anchors == {"/var/tmp/claude-home", "/var/tmp/codex-home", "/host_auth", "/alt", "/code"}

IsAbs(p) == p # <<>> /\ p[1] \in Anchors

\* os.path.join(a, b)
join(a, b) == IF IsAbs(b) THEN b ELSE a \o b

\* os.path.dirname(p)
dirname(p) == IF p = <<>> THEN <<>> ELSE SubSeq(p, 1, Len(p) - 1)

\* os.path.expanduser(p): a leading "~" becomes $HOME
expanduser(e, p) ==
  IF p # <<>> /\ p[1] = "~" /\ "HOME" \in DOMAIN e THEN e["HOME"] \o Tail(p) ELSE p

\* the variable an atom "$NAME" refers to
VarRef == [x \in {"$CREDS", "$HOME"} |-> IF x = "$CREDS" THEN "CREDS" ELSE "HOME"]

\* os.path.expandvars(p): one pass; a reference to an unset variable stays
RECURSIVE expandvars(_, _)
expandvars(e, p) ==
  IF p = <<>> THEN <<>>
  ELSE LET a == Head(p)
       IN  (IF a \in DOMAIN VarRef /\ VarRef[a] \in DOMAIN e
              THEN e[VarRef[a]] ELSE <<a>>) \o expandvars(e, Tail(p))

expand_path(e, p) == expandvars(e, expanduser(e, p))

----------------------------------------------------------------------------
(* resolve_source_file; legacy_env = "" stands for None and for "" *)

resolve_legacy_first(e, primary_env, default_path, legacy_env) ==
  LET primary == strip(getenv(e, primary_env, <<>>))
      legacy  == IF legacy_env # "" THEN strip(getenv(e, legacy_env, <<>>)) ELSE <<>>
  IN  IF legacy # <<>> THEN expand_path(e, legacy)
      ELSE IF primary # <<>> THEN expand_path(e, primary)
      ELSE expand_path(e, default_path)

resolve_source_file(e, primary_env, default_path, legacy_env) ==
  LET primary == strip(getenv(e, primary_env, <<>>))
  IN  IF primary # <<>> THEN expand_path(e, primary)
      ELSE LET legacy == IF legacy_env # "" THEN strip(getenv(e, legacy_env, <<>>)) ELSE <<>>
           IN  IF legacy # <<>> THEN expand_path(e, legacy)
               ELSE expand_path(e, default_path)

----------------------------------------------------------------------------
(* Filesystem *)

HostAuth == <<"/host_auth">>
Alt      == <<"/alt">>
Code     == <<"/code">>

HomeOf(a) == IF a = "claude" THEN ClaudeHome ELSE CodexHome

\* the directory under the home that sync_*_auth creates, lines 54 / 54-55
SubDirOf(a) == IF a = "claude" THEN <<".claude">> ELSE <<".codex">>

Nodes ==
  { ClaudeHome, ClaudeHome \o <<".config">>, ClaudeHome \o <<".claude">>,
    ClaudeHome \o <<".claude.json">>, ClaudeHome \o <<".claude", "settings.json">>,
    ClaudeHome \o <<"creds.json">>,
    CodexHome, CodexHome \o <<".config">>, CodexHome \o <<".codex">>,
    CodexHome \o <<".codex", "auth.json">>, CodexHome \o <<".codex", "config.toml">>,
    CodexHome \o <<".codex", "version.json">>, CodexHome \o <<".codex", "creds.json">>,
    HostAuth, HostAuth \o <<".claude.json">>, HostAuth \o <<".claude">>,
    HostAuth \o <<".claude", "settings.json">>, HostAuth \o <<".codex">>,
    HostAuth \o <<".codex", "auth.json">>, HostAuth \o <<".codex", "config.toml">>,
    HostAuth \o <<".codex", "version.json">>,
    Alt, Alt \o <<"creds.json">>, Alt \o <<"gone.json">>,
    Code, Code \o <<"creds.json">> }

Absent     == [kind |-> "none", data |-> "",  target |-> <<>>]
Dir        == [kind |-> "dir",  data |-> "",  target |-> <<>>]
File(d)    == [kind |-> "file", data |-> d,   target |-> <<>>]
Link(t)    == [kind |-> "link", data |-> "",  target |-> t]

\* a chain of links longer than the number of paths is a loop (ELOOP)
LinkFuel == Cardinality(Nodes)

\* lstat of an absolute path: every proper ancestor must be a directory
Lookup(f, p) ==
  IF p \notin Nodes THEN Absent
  ELSE IF \A k \in 1..(Len(p) - 1) : f[SubSeq(p, 1, k)].kind = "dir"
       THEN f[p] ELSE Absent

\* stat of an absolute path: a final symbolic link is followed; a relative
\* target is taken from the directory that holds the link
RECURSIVE stat(_, _, _)
stat(f, p, fuel) ==
  LET e == Lookup(f, p)
  IN  IF e.kind # "link" THEN e
      ELSE IF fuel = 0 \/ e.target = <<>> THEN Absent
      ELSE stat(f, join(dirname(p), e.target), fuel - 1)

\* os.path.isfile, os.path.isdir, os.path.lexists (relative paths from cwd)
isfile(f, c, p)  == p # <<>> /\ stat(f, join(c, p), LinkFuel).kind = "file"
isdir(f, c, p)   == p # <<>> /\ stat(f, join(c, p), LinkFuel).kind = "dir"
lexists(f, c, p) == p # <<>> /\ Lookup(f, join(c, p)).kind # "none"

\* what open(p).read() gives; "" when p is no regular file
ReadThrough(f, c, p) == IF isfile(f, c, p) THEN stat(f, join(c, p), LinkFuel).data ELSE ""

\* os.makedirs(p, exist_ok=True): [ok, fs]; ok = FALSE is the OSError raised,
\* with the directories made before it left in place
RECURSIVE mkdirs_from(_, _, _)
mkdirs_from(f, a, k) ==
  IF k > Len(a) THEN [ok |-> TRUE, fs |-> f]
  ELSE LET q == SubSeq(a, 1, k)
       IN  IF stat(f, q, LinkFuel).kind = "dir" THEN mkdirs_from(f, a, k + 1)
           ELSE IF q \in Nodes /\ f[q].kind = "none"
                   /\ \A j \in 1..(k - 1) : stat(f, SubSeq(a, 1, j), LinkFuel).kind = "dir"
                THEN mkdirs_from([f EXCEPT ![q] = Dir], a, k + 1)
                ELSE [ok |-> FALSE, fs |-> f]

makedirs(f, c, p) ==
  IF p = <<>> THEN [ok |-> FALSE, fs |-> f] ELSE mkdirs_from(f, join(c, p), 1)

----------------------------------------------------------------------------
(* symlink_file: [fs, ret, raised]; raised = TRUE is an OSError escaping *)

symlink_file_no_check(f, c, e, source_file, dest_file) ==
  LET s == expand_path(e, source_file)
      d == expand_path(e, dest_file)
      m == makedirs(f, c, dirname(d))
      a == join(c, d)
  IN  IF ~m.ok \/ a \notin Nodes \/ Lookup(m.fs, a).kind = "dir"
        THEN [fs |-> m.fs, ret |-> FALSE, raised |-> TRUE]
        ELSE [fs |-> [m.fs EXCEPT ![a] = Link(s)], ret |-> TRUE, raised |-> FALSE]

symlink_file(f, c, e, source_file, dest_file) ==
  LET s == expand_path(e, source_file)
      d == expand_path(e, dest_file)
  IN  IF ~isfile(f, c, s) THEN [fs |-> f, ret |-> FALSE, raised |-> FALSE]
      ELSE LET m == makedirs(f, c, dirname(d))
               a == join(c, d)
           IN  IF ~m.ok \/ a \notin Nodes
                 THEN [fs |-> m.fs, ret |-> FALSE, raised |-> TRUE]
               ELSE IF lexists(m.fs, c, d) /\ Lookup(m.fs, a).kind = "dir"
                 \* os.remove of a directory: IsADirectoryError
                 THEN [fs |-> m.fs, ret |-> FALSE, raised |-> TRUE]
               ELSE [fs |-> [m.fs EXCEPT ![a] = Link(s)], ret |-> TRUE, raised |-> FALSE]

\* one iteration of the loop of sync_*_auth: [fs, report]
materialize_overwrite(f, c, e, src, dst) ==
  LET r == symlink_file(f, c, e, src, dst)
  IN  [fs |-> r.fs,
       report |-> IF r.raised THEN "raise" ELSE IF r.ret THEN "linked" ELSE "missing"]

materialize(f, c, e, src, dst) ==
  IF isfile(f, c, dst) THEN [fs |-> f, report |-> "mounted"]
  ELSE LET r == symlink_file(f, c, e, src, dst)
       IN  [fs |-> r.fs,
            report |-> IF r.raised THEN "raise" ELSE IF r.ret THEN "linked" ELSE "missing"]

\* the source map of sync_*_auth, in dict order
SourceMap(a, e) ==
  IF a = "claude"
  THEN LET legacy_dir == expand_path(e, getenv(e, "CLAUDE_AUTH_SOURCE_DIR", HostAuth \o <<".claude">>))
       IN  << [dest |-> <<".claude.json">>,
               src  |-> resolve_source_file(e, "CLAUDE_AUTH_FILE",
                          HostAuth \o <<".claude.json">>, "CLAUDE_AUTH_SOURCE_FILE")],
              [dest |-> <<".claude", "settings.json">>,
               src  |-> resolve_source_file(e, "CLAUDE_SETTINGS_FILE",
                          join(legacy_dir, <<"settings.json">>), "")] >>
  ELSE LET legacy_source_dir == expand_path(e, getenv(e, "CODEX_AUTH_SOURCE", HostAuth \o <<".codex">>))
       IN  << [dest |-> <<"auth.json">>,
               src  |-> resolve_source_file(e, "CODEX_AUTH_FILE",
                          join(legacy_source_dir, <<"auth.json">>), "CODEX_AUTH_SOURCE_FILE")],
              [dest |-> <<"config.toml">>,
               src  |-> resolve_source_file(e, "CODEX_CONFIG_FILE",
                          join(legacy_source_dir, <<"config.toml">>), "")],
              [dest |-> <<"version.json">>,
               src  |-> resolve_source_file(e, "CODEX_VERSION_FILE",
                          join(legacy_source_dir, <<"version.json">>), "")] >>

\* home_dir of sync_*_auth and the directory its destinations are joined to
HomeDir(a, e) == expand_path(e, getenv(e, "HOME", HomeOf(a)))
DestBase(a, e) == IF a = "claude" THEN HomeDir(a, e) ELSE join(HomeDir(a, e), <<".codex">>)

----------------------------------------------------------------------------
(* Initial filesystems and environments *)

\* the first and second destination of an adapter, their default sources, and
\* the path a relative link target "creds.json" at the first destination names
D1(a) == IF a = "claude" THEN ClaudeHome \o <<".claude.json">>
                         ELSE CodexHome \o <<".codex", "auth.json">>
S1(a) == IF a = "claude" THEN HostAuth \o <<".claude.json">>
                         ELSE HostAuth \o <<".codex", "auth.json">>
D2(a) == IF a = "claude" THEN ClaudeHome \o <<".claude", "settings.json">>
                         ELSE CodexHome \o <<".codex", "config.toml">>
S2(a) == IF a = "claude" THEN HostAuth \o <<".claude", "settings.json">>
                         ELSE HostAuth \o <<".codex", "config.toml">>
Sibling(a) == dirname(D1(a)) \o <<"creds.json">>
SubDir(a)  == HomeOf(a) \o SubDirOf(a)
AltCreds   == Alt \o <<"creds.json">>
CodeCreds  == Code \o <<"creds.json">>

DstOptions(a) ==
  { Absent, File("old"), Dir, Link(AltCreds), Link(S1(a)),
    Link(Alt \o <<"gone.json">>), Link(<<"creds.json">>) }
SrcOptions == { Absent, File("k1"), Dir, Link(AltCreds) }

\* the mounts every run starts from: the host directories and the working directory
BaseFs(a, home) ==
  [n \in Nodes |->
     IF n \in {HostAuth, HostAuth \o SubDirOf(a), Alt, Code} THEN Dir
     ELSE IF n = HomeOf(a) THEN home ELSE Absent]

MkFs(a, home, sub, d1, s1, d2, s2, alt, rel, sib) ==
  [n \in Nodes |->
     IF n = D1(a) THEN d1
     ELSE IF n = S1(a) THEN s1
     ELSE IF n = D2(a) THEN d2
     ELSE IF n = S2(a) THEN s2
     ELSE IF n = SubDir(a) THEN sub
     ELSE IF n = AltCreds THEN alt
     ELSE IF n = CodeCreds THEN rel
     ELSE IF n = Sibling(a) THEN sib
     ELSE BaseFs(a, home)[n]]

PrimaryVar(a) == IF a = "claude" THEN "CLAUDE_AUTH_FILE" ELSE "CODEX_AUTH_FILE"
LegacyVar(a)  == IF a = "claude" THEN "CLAUDE_AUTH_SOURCE_FILE" ELSE "CODEX_AUTH_SOURCE_FILE"

\* the function with the pairs <<name, value>> of S
EnvFrom(S) == [n \in { q[1] : q \in S } |-> (CHOOSE q \in S : q[1] = n)[2]]

RelPath    == << "creds.json" >>
TildePath  == << "~", "creds.json" >>
DollarPath == << "$CREDS", "creds.json" >>

PrimaryValues ==
  { << " " >>, << " ", "/alt", "creds.json", "\t" >>, RelPath, TildePath, DollarPath }

\* The initial slots.  A slot that no lookup of the run can read keeps one
\* value: the file in the working directory matters to a relative source
\* only, the sibling of the destination to a relative link or a "~" source
\* only, CREDS to a "$CREDS" source only, the legacy variable when the primary
\* one does not decide.  An entry can only lie in a directory.
SyncSlots(a) ==
  { t \in [ prim : { {} } \cup { { <<PrimaryVar(a), v>> } : v \in PrimaryValues },
            leg  : { {}, { <<LegacyVar(a), AltCreds>> } },
            cred : { {}, { <<"CREDS", Alt>> }, { <<"CREDS", <<"~">> >> } },
            sub  : { Absent, Dir, File("x") },
            d1   : DstOptions(a),
            s1   : SrcOptions,
            d2   : { <<Absent, Absent>>, <<Absent, File("k5")>>, <<File("old"), File("k5")>> },
            alt  : { Absent, File("k2") },
            rel  : { Absent, File("k3") },
            sib  : { Absent, File("k4") } ] :
      /\ t.cred # {} => t.prim = { <<PrimaryVar(a), DollarPath>> }
      /\ t.leg # {} => t.prim \in { {}, { <<PrimaryVar(a), << " " >> >> } }
      /\ t.rel # Absent => t.prim = { <<PrimaryVar(a), RelPath>> }
      /\ t.sib # Absent =>
            \/ t.d1 = Link(RelPath)
            \/ t.prim \in { { <<PrimaryVar(a), RelPath>> }, { <<PrimaryVar(a), TildePath>> } }
            \/ t.cred = { <<"CREDS", <<"~">> >> }
      /\ t.sub # Dir => t.d2[1] = Absent
      /\ (t.sub # Dir /\ a = "codex") => (t.d1 = Absent /\ t.sib = Absent)
      /\ t.sub.kind = "file" =>
            /\ t.d1 = Absent /\ t.s1 = Absent /\ t.d2 = <<Absent, Absent>>
            /\ t.alt = Absent /\ t.rel = Absent /\ t.sib = Absent /\ t.prim = {} /\ t.leg = {} }

NoCall == [primary_env |-> "", default_path |-> <<>>, legacy_env |-> ""]
NoLast(f) == [dest |-> <<>>, dst |-> <<>>, src |-> <<>>, pre |-> f, report |-> "none"]
NoRun(f)  == [pre |-> f, fs |-> f, linked |-> <<>>, missing |-> <<>>, map |-> <<>>]

\* the variables of a part of the program that has not run yet
SyncIdle ==
  /\ source_map = <<>>
  /\ idx = 0
  /\ linked = <<>>
  /\ missing = <<>>
  /\ last = NoLast(fs)
  /\ runs = 0
  /\ after1 = NoRun(fs)

MainIdle ==
  /\ onPath = TRUE
  /\ promptFile = "hello"
  /\ prompt = <<>>
  /\ cmd = <<>>
  /\ json_mode = <<>>

RunIdle ==
  /\ started = 0
  /\ exitcode = <<>>
  /\ ret = <<>>
  /\ budget = 0
  /\ stream = <<>>
  /\ events = <<>>
  /\ non_json_lines = 0

InitSync ==
  /\ mode = "sync"
  /\ pc = "sync"
  /\ adapter \in {"claude", "codex"}
  /\ \E t \in SyncSlots(adapter) :
        /\ env = EnvFrom({ <<"HOME", HomeOf(adapter)>> } \cup t.prim \cup t.leg \cup t.cred)
        /\ fs = MkFs(adapter, Dir, t.sub, t.d1, t.s1, t.d2[1], t.d2[2], t.alt, t.rel, t.sib)
  /\ cwd = Code
  /\ call = NoCall
  /\ result = <<>>
  /\ SyncIdle
  /\ MainIdle
  /\ RunIdle
  /\ out = <<>>

----------------------------------------------------------------------------
(* sync_claude_auth / sync_codex_auth *)

Info(msg, arg)  == [level |-> "INFO", msg |-> msg, arg |-> arg]
Warn(msg, arg)  == [level |-> "WARNING", msg |-> msg, arg |-> arg]
Err(msg, arg)   == [level |-> "ERROR", msg |-> msg, arg |-> arg]

\* where control goes when sync_*_auth returns
AfterSync == IF mode = "sync" THEN "synced" ELSE IF adapter = "claude" THEN "tuning" ELSE "which"

\* lines 53-63 (claude), 53-65 (codex): make the directory, build the source map
SyncStart ==
  /\ pc = "sync"
  /\ LET m == makedirs(fs, cwd, join(HomeDir(adapter, env), SubDirOf(adapter)))
     IN  /\ fs' = m.fs
         /\ IF m.ok
              THEN /\ pc' = "sync_loop"
                   /\ source_map' = SourceMap(adapter, env)
                   /\ idx' = 1
                   /\ linked' = <<>>
                   /\ missing' = <<>>
                   /\ after1' = IF runs = 0 THEN [after1 EXCEPT !.pre = fs] ELSE after1
              ELSE /\ pc' = "crashed"
                   /\ UNCHANGED <<source_map, idx, linked, missing, after1>>
  /\ UNCHANGED <<env, out, procVars, callVars, last, runs, mainVars, runVars>>

\* one iteration of the loop, lines 64-72 (claude), 66-74 (codex)
SyncStep ==
  /\ pc = "sync_loop"
  /\ idx <= Len(source_map)
  /\ LET rel_dest == source_map[idx].dest
         src == source_map[idx].src
         dst == join(DestBase(adapter, env), rel_dest)
         r   == materialize(fs, cwd, env, src, dst)
     IN  /\ fs' = r.fs
         /\ last' = [dest |-> rel_dest, dst |-> dst, src |-> src, pre |-> fs,
                     report |-> r.report]
         /\ linked' = IF r.report = "mounted"
                        THEN Append(linked, [name |-> rel_dest, direct |-> TRUE])
                      ELSE IF r.report = "linked"
                        THEN Append(linked, [name |-> rel_dest, direct |-> FALSE])
                      ELSE linked
         /\ missing' = IF r.report = "missing" THEN Append(missing, rel_dest) ELSE missing
         /\ IF r.report = "raise"
              THEN pc' = "crashed" /\ idx' = idx
              ELSE pc' = pc /\ idx' = idx + 1
  /\ UNCHANGED <<env, out, procVars, callVars, source_map, runs, after1, mainVars, runVars>>

\* lines 74-77 (claude), 76-79 (codex): the two report lines
SyncEnd ==
  /\ pc = "sync_loop"
  /\ idx > Len(source_map)
  /\ out' = out \o (IF linked # <<>> THEN << Info("ready", linked) >> ELSE <<>>)
                \o (IF missing # <<>> THEN << Info("not found (skipped)", missing) >> ELSE <<>>)
  /\ runs' = runs + 1
  /\ after1' = IF runs = 0
                 THEN [after1 EXCEPT !.fs = fs, !.linked = linked, !.missing = missing,
                                     !.map = source_map]
                 ELSE after1
  /\ pc' = AfterSync
  /\ UNCHANGED <<env, fs, procVars, callVars, source_map, idx, linked, missing, last,
                 mainVars, runVars>>

\* the adapter is run again against the same home directory and sources
Reinvoke ==
  /\ mode = "sync"
  /\ pc = "synced"
  /\ runs < MaxRuns
  /\ pc' = "sync"
  /\ out' = <<>>
  /\ UNCHANGED <<env, fs, procVars, callVars, syncVars, mainVars, runVars>>

NextSync == SyncStart \/ SyncStep \/ SyncEnd \/ Reinvoke

SpecSync == InitSync /\ [][NextSync]_vars

----------------------------------------------------------------------------
(* A call of resolve_source_file on its own *)

ResolveValues == { <<>> } \cup PrimaryValues

InitResolve ==
  /\ mode = "resolve"
  /\ pc = "resolve"
  /\ adapter \in {"claude", "codex"}
  /\ call \in [ primary_env  : { PrimaryVar(adapter) },
                default_path : { S1(adapter), TildePath },
                legacy_env   : { "", LegacyVar(adapter) } ]
  /\ \E prim \in { {} } \cup { { <<PrimaryVar(adapter), v>> } : v \in ResolveValues },
        leg  \in { {} } \cup { { <<LegacyVar(adapter), v>> } : v \in ResolveValues },
        cred \in { {}, { <<"CREDS", Alt>> }, { <<"CREDS", <<"~">> >> } } :
        env = EnvFrom({ <<"HOME", HomeOf(adapter)>> } \cup prim \cup leg \cup cred)
  /\ cwd = Code
  /\ \E s1 \in { Absent, File("k1") } :
        fs = MkFs(adapter, Dir, Absent, Absent, s1, Absent, Absent, s1, Absent, Absent)
  /\ result = <<>>
  /\ SyncIdle
  /\ MainIdle
  /\ RunIdle
  /\ out = <<>>

ResolveCall ==
  /\ mode = "resolve"
  /\ pc = "resolve"
  /\ result' = resolve_source_file(env, call.primary_env, call.default_path, call.legacy_env)
  /\ pc' = "resolved"
  /\ UNCHANGED <<env, fs, out, procVars, call, syncVars, mainVars, runVars>>

NextResolve == ResolveCall

SpecResolve == InitResolve /\ [][NextResolve]_vars

----------------------------------------------------------------------------
(* Claims about resolve_source_file *)

\* a variable counts as set when its value has a character that is not whitespace
IsSet(e, name) == name \in DOMAIN e /\ \E i \in 1..Len(e[name]) : e[name][i] \notin Whitespace

\* the value without its leading and trailing whitespace
Trimmed(v) ==
  LET keep == { i \in 1..Len(v) : v[i] \notin Whitespace }
  IN  IF keep = {} THEN <<>>
      ELSE SubSeq(v, CHOOSE i \in keep : \A j \in keep : i <= j,
                     CHOOSE i \in keep : \A j \in keep : i >= j)

\* C1: resolve_source_file returns the expanded primary value when the primary
\* variable is set; otherwise the expanded legacy value when a legacy variable
\* is given and set; otherwise the expanded default.  Unset, empty and
\* whitespace-only values count as not set, and the result is the same
\* whether or not a file exists at any of the three paths.
C1_Precedence ==
  pc = "resolved" =>
    result = IF IsSet(env, call.primary_env)
               THEN expand_path(env, Trimmed(env[call.primary_env]))
             ELSE IF call.legacy_env # "" /\ IsSet(env, call.legacy_env)
               THEN expand_path(env, Trimmed(env[call.legacy_env]))
             ELSE expand_path(env, call.default_path)

\* the primary and the legacy variable are both set, to different paths, and
\* the primary one has won
C1_Witness ==
  /\ pc = "resolved"
  /\ call.legacy_env # ""
  /\ IsSet(env, call.primary_env) /\ IsSet(env, call.legacy_env)
  /\ Trimmed(env[call.primary_env]) # env[call.primary_env]
  /\ expand_path(env, Trimmed(env[call.primary_env]))
       # expand_path(env, Trimmed(env[call.legacy_env]))
  /\ result = AltCreds

----------------------------------------------------------------------------
(* Claims about the materialisation of one destination *)

\* the loop of sync_*_auth is about to materialise source_map[idx]
StepReady == pc = "sync_loop" /\ idx <= Len(source_map)

\* the destination of that iteration, and its source as symlink_file expands
\* and tests it
CurDst == join(DestBase(adapter, env), source_map[idx].dest)
CurSrc == expand_path(env, source_map[idx].src)

\* the destination and the tested source of entry i of the first run's map
DstOf(i) == join(DestBase(adapter, env), after1.map[i].dest)
SrcOf(i) == expand_path(env, after1.map[i].src)

\* C2 (as stated): a destination with no entry whose source is a regular file
\* is reported linked by the first run and mounted directly by the second, and
\* the second run leaves the entry at the destination and the content read
\* through it as the first run left them.
C2_Idempotent ==
  (mode = "sync" /\ pc = "synced" /\ runs = 2) =>
    \A i \in DOMAIN after1.map :
      (~lexists(after1.pre, cwd, DstOf(i)) /\ isfile(after1.pre, cwd, SrcOf(i))) =>
        /\ \E j \in DOMAIN after1.linked :
              after1.linked[j] = [name |-> after1.map[i].dest, direct |-> FALSE]
        /\ \E j \in DOMAIN linked :
              linked[j] = [name |-> after1.map[i].dest, direct |-> TRUE]
        /\ \A j \in DOMAIN missing : missing[j] # after1.map[i].dest
        /\ Lookup(fs, DstOf(i)) = Lookup(after1.fs, DstOf(i))
        /\ ReadThrough(fs, cwd, DstOf(i)) = ReadThrough(after1.fs, cwd, DstOf(i))

\* C3: a destination that resolves to a regular file is reported as mounted
\* directly and the iteration changes no filesystem entry, whatever the source.
C3_NeverOverwritten ==
  [][ (StepReady /\ isfile(fs, cwd, CurDst)) =>
        /\ fs' = fs
        /\ last'.report = "mounted"
        /\ linked' = Append(linked, [name |-> source_map[idx].dest, direct |-> TRUE])
        /\ missing' = missing
        /\ pc' = "sync_loop" /\ idx' = idx + 1 ]_vars

\* the destination was a link to a regular file other than the resolved
\* source, the source itself was a regular file, and the link was kept
C3_Witness ==
  /\ last.report = "mounted"
  /\ Lookup(last.pre, last.dst).kind = "link"
  /\ Lookup(last.pre, last.dst).target # expand_path(env, last.src)
  /\ isfile(last.pre, cwd, expand_path(env, last.src))
  /\ Lookup(fs, last.dst) = Lookup(last.pre, last.dst)

\* C4: when no regular file is at the destination and the source is not a
\* regular file, the iteration reports missing, changes no filesystem entry
\* (a dangling link at the destination stays) and the loop goes on.
C4_MissingSource ==
  [][ (StepReady /\ ~isfile(fs, cwd, CurDst) /\ ~isfile(fs, cwd, CurSrc)) =>
        /\ fs' = fs
        /\ last'.report = "missing"
        /\ missing' = Append(missing, source_map[idx].dest)
        /\ linked' = linked
        /\ pc' = "sync_loop" /\ idx' = idx + 1 ]_vars

\* a dangling link at the first destination, a source that is a dangling link
\* too: reported missing, the link still there, the loop at the next file
C4_Witness ==
  /\ pc = "sync_loop" /\ idx = 2 /\ idx <= Len(source_map)
  /\ last.report = "missing"
  /\ Lookup(last.pre, last.dst).kind = "link"
  /\ Lookup(last.pre, join(cwd, expand_path(env, last.src))).kind = "link"
  /\ fs = last.pre

\* C5 (as stated): when no regular file is at the destination and the source
\* is a regular file, the iteration reports linked, the destination's parent
\* is a directory, the destination is a link to the source, whatever entry was
\* there before, and no other path has changed.
C5_LinkedEndState ==
  [][ (StepReady /\ ~isfile(fs, cwd, CurDst) /\ isfile(fs, cwd, CurSrc)) =>
        /\ last'.report = "linked"
        /\ Lookup(fs', CurDst) = Link(CurSrc)
        /\ isdir(fs', cwd, dirname(CurDst))
        /\ \A n \in Nodes \ {CurDst} : fs'[n] = fs[n] ]_vars

----------------------------------------------------------------------------
(* JSON values, and json.loads on the lines the subprocess may write *)

JNull   == [t |-> "null", s |-> "", f |-> <<>>]
JStr(x) == [t |-> "str", s |-> x, f |-> <<>>]
JNum(x) == [t |-> "num", s |-> x, f |-> <<>>]
JArr(x) == [t |-> "arr", s |-> x, f |-> <<>>]
JObj(g) == [t |-> "obj", s |-> "", f |-> g]

Parsed(v) == [ok |-> TRUE, v |-> v]
JSONDecodeError == [ok |-> FALSE, v |-> JNull]

json_loads ==
     "" :> JSONDecodeError
  @@ "  " :> JSONDecodeError
  @@ "{" :> JSONDecodeError
  @@ "thinking..." :> JSONDecodeError
  @@ "42" :> Parsed(JNum("42"))
  @@ "\"s\"" :> Parsed(JStr("s"))
  @@ "null" :> Parsed(JNull)
  @@ "[1]" :> Parsed(JArr("[1]"))
  @@ "{}" :> Parsed(JObj(<<>>))
  @@ "{\"type\":\"turn.started\"}" :> Parsed(JObj("type" :> JStr("turn.started")))
  @@ "{\"type\":\"thread.started\"}" :> Parsed(JObj("type" :> JStr("thread.started")))
  @@ "{\"type\":\"thread.started\",\"thread_id\":\"\"}" :> Parsed(JObj("type" :> JStr("thread.started") @@ "thread_id" :> JStr("")))
  @@ "{\"type\":\"thread.started\",\"thread_id\":\"t1\"}" :> Parsed(JObj("type" :> JStr("thread.started") @@ "thread_id" :> JStr("t1")))
  @@ "{\"type\":\"thread.started\",\"thread_id\":\"t2\"}" :> Parsed(JObj("type" :> JStr("thread.started") @@ "thread_id" :> JStr("t2")))
  @@ "{\"type\":\"turn.completed\"}" :> Parsed(JObj("type" :> JStr("turn.completed")))
  @@ "{\"type\":\"turn.completed\",\"usage\":null}" :> Parsed(JObj("type" :> JStr("turn.completed") @@ "usage" :> JNull))
  @@ "{\"type\":\"turn.completed\",\"usage\":{}}" :> Parsed(JObj("type" :> JStr("turn.completed") @@ "usage" :> JObj(<<>>)))
  @@ "{\"type\":\"turn.completed\",\"usage\":{\"tokens\":1}}" :> Parsed(JObj("type" :> JStr("turn.completed") @@ "usage" :> JObj("tokens" :> JNum("1"))))
  @@ "{\"type\":\"turn.completed\",\"usage\":{\"tokens\":2}}" :> Parsed(JObj("type" :> JStr("turn.completed") @@ "usage" :> JObj("tokens" :> JNum("2"))))
  @@ "{\"type\":\"item.completed\"}" :> Parsed(JObj("type" :> JStr("item.completed")))
  @@ "{\"type\":\"item.completed\",\"item\":null}" :> Parsed(JObj("type" :> JStr("item.completed") @@ "item" :> JNull))
  @@ "{\"type\":\"item.completed\",\"item\":\"x\"}" :> Parsed(JObj("type" :> JStr("item.completed") @@ "item" :> JStr("x")))
  @@ "{\"type\":\"item.completed\",\"item\":{\"type\":\"agent_message\"}}" :> Parsed(JObj("type" :> JStr("item.completed") @@ "item" :> JObj("type" :> JStr("agent_message"))))
  @@ "{\"type\":\"item.completed\",\"item\":{\"type\":\"agent_message\",\"text\":\"\"}}" :> Parsed(JObj("type" :> JStr("item.completed") @@ "item" :> JObj("type" :> JStr("agent_message") @@ "text" :> JStr(""))))
  @@ "{\"type\":\"item.completed\",\"item\":{\"type\":\"agent_message\",\"text\":\"m1\"}}" :> Parsed(JObj("type" :> JStr("item.completed") @@ "item" :> JObj("type" :> JStr("agent_message") @@ "text" :> JStr("m1"))))
  @@ "{\"type\":\"item.completed\",\"item\":{\"type\":\"agent_message\",\"text\":\"m2\"}}" :> Parsed(JObj("type" :> JStr("item.completed") @@ "item" :> JObj("type" :> JStr("agent_message") @@ "text" :> JStr("m2"))))
  @@ "{\"type\":\"item.completed\",\"item\":{\"type\":\"reasoning\",\"text\":\"r1\"}}" :> Parsed(JObj("type" :> JStr("item.completed") @@ "item" :> JObj("type" :> JStr("reasoning") @@ "text" :> JStr("r1"))))

Lines == DOMAIN json_loads

\* Python truthiness of a JSON value
truthy(v) ==
  IF v.t = "str" THEN v.s # ""
  ELSE IF v.t = "num" THEN v.s # "0"
  ELSE IF v.t = "arr" THEN v.s # "[]"
  ELSE IF v.t = "obj" THEN DOMAIN v.f # {}
  ELSE FALSE

\* dict.get(key, default); only a dict has it
has_get(v) == v.t = "obj"
get(v, key, default) == IF key \in DOMAIN v.f THEN v.f[key] ELSE default

ExitCodes == {0, 1, 2}

----------------------------------------------------------------------------
(* run_codex_json_result *)

\* line 126: next((event for event in events if event.get("type") == ...), None)
RECURSIVE first_of_type(_, _)
first_of_type(evs, ty) ==
  IF evs = <<>> THEN [raised |-> FALSE, found |-> FALSE, ev |-> JNull]
  ELSE IF ~has_get(Head(evs)) THEN [raised |-> TRUE, found |-> FALSE, ev |-> JNull]
  ELSE IF get(Head(evs), "type", JNull) = JStr(ty)
    THEN [raised |-> FALSE, found |-> TRUE, ev |-> Head(evs)]
  ELSE first_of_type(Tail(evs), ty)

\* line 130: [event for event in events if event.get("type") == ...]
all_of_type(evs, ty) ==
  IF \E i \in DOMAIN evs : ~has_get(evs[i])
    THEN [raised |-> TRUE, list |-> <<>>]
    ELSE [raised |-> FALSE,
          list |-> SelectSeq(evs, LAMBDA e : get(e, "type", JNull) = JStr(ty))]

\* lines 136-144: the loop that collects final_messages
RECURSIVE final_messages(_, _)
final_messages(evs, acc) ==
  IF evs = <<>> THEN [raised |-> FALSE, list |-> acc]
  ELSE LET event == Head(evs)
       IN  IF ~has_get(event) THEN [raised |-> TRUE, list |-> acc]
           ELSE IF get(event, "type", JNull) # JStr("item.completed")
             THEN final_messages(Tail(evs), acc)
           ELSE LET item == get(event, "item", JObj(<<>>))
                IN  IF ~has_get(item) THEN [raised |-> TRUE, list |-> acc]
                    ELSE IF get(item, "type", JNull) = JStr("agent_message")
                            /\ truthy(get(item, "text", JStr("")))
                      THEN final_messages(Tail(evs), Append(acc, get(item, "text", JStr(""))))
                    ELSE final_messages(Tail(evs), acc)

BaseKeys == {"type", "subtype", "is_error", "returncode", "event_count", "non_json_line_count"}

\* lines 117-146: [raised, summary]; raised = TRUE is an AttributeError escaping
reduce(evs, n_bad, rc) ==
  LET ts   == first_of_type(evs, "thread.started")
      tc   == all_of_type(evs, "turn.completed")
      fm   == final_messages(evs, <<>>)
      id   == IF ts.found /\ truthy(ts.ev) THEN get(ts.ev, "thread_id", JNull) ELSE JNull
      use  == IF tc.list # <<>> THEN get(tc.list[Len(tc.list)], "usage", JNull) ELSE JNull
      keys == BaseKeys
                \cup (IF truthy(id) THEN {"thread_id"} ELSE {})
                \cup (IF use # JNull THEN {"usage"} ELSE {})
                \cup (IF fm.list # <<>> THEN {"final_message"} ELSE {})
  IN  IF ts.raised \/ tc.raised \/ fm.raised THEN [raised |-> TRUE, summary |-> <<>>]
      ELSE [raised |-> FALSE,
            summary |-> [k \in keys |->
               IF k = "type" THEN "result"
               ELSE IF k = "subtype" THEN "codex_exec"
               ELSE IF k = "is_error" THEN rc # 0
               ELSE IF k = "returncode" THEN rc
               ELSE IF k = "event_count" THEN Len(evs)
               ELSE IF k = "non_json_line_count" THEN n_bad
               ELSE IF k = "thread_id" THEN id
               ELSE IF k = "usage" THEN use
               ELSE fm.list[Len(fm.list)]]]

ResultLine(summary) == [level |-> "RESULT", msg |-> "summary", arg |-> summary]

\* lines 94-105: start the subprocess
Popen ==
  /\ pc = "popen"
  /\ IF promptFile = "number_prompt"
       \* an argument that is no string: TypeError before any process exists
       THEN pc' = "crashed" /\ UNCHANGED <<started, stream, events, non_json_lines>>
       ELSE /\ started' = started + 1
            /\ stream' = <<>>
            /\ events' = <<>>
            /\ non_json_lines' = 0
            /\ pc' = "reading"
  /\ UNCHANGED <<env, fs, out, procVars, callVars, syncVars, mainVars, exitcode, ret, budget>>

\* lines 106-113: the subprocess writes a line and the loop takes it
ReadLine ==
  /\ pc = "reading"
  /\ budget > 0
  /\ \E raw \in Lines :
       /\ stream' = Append(stream, raw)
       /\ IF raw = "" THEN UNCHANGED <<events, non_json_lines>>
          ELSE IF json_loads[raw].ok
            THEN events' = Append(events, json_loads[raw].v) /\ UNCHANGED non_json_lines
            ELSE non_json_lines' = non_json_lines + 1 /\ UNCHANGED events
  /\ budget' = budget - 1
  /\ UNCHANGED <<pc, env, fs, out, procVars, callVars, syncVars, mainVars, started, exitcode, ret>>

\* line 115: the subprocess closes its output and exits; process.wait() returns
ChildExit ==
  /\ pc = "reading"
  /\ \E c \in ExitCodes : exitcode' = <<c>>
  /\ pc' = "reduce"
  /\ UNCHANGED <<env, fs, out, procVars, callVars, syncVars, mainVars, started, ret, budget,
                 stream, events, non_json_lines>>

\* lines 117-149: build the summary, print it, return the exit code
Reduce ==
  /\ pc = "reduce"
  /\ LET r == reduce(events, non_json_lines, exitcode[1])
     IN  IF r.raised
           THEN pc' = "crashed" /\ UNCHANGED <<out, ret>>
           ELSE /\ out' = Append(out, ResultLine(r.summary))
                /\ ret' = exitcode
                /\ pc' = "done"
  /\ UNCHANGED <<env, fs, procVars, callVars, syncVars, mainVars, started, exitcode, budget,
                 stream, events, non_json_lines>>

InitReduce ==
  /\ mode = "reduce"
  /\ pc = "popen"
  /\ adapter = "codex"
  /\ env = EnvFrom({ <<"HOME", CodexHome>> })
  /\ cwd = Code
  /\ fs = BaseFs("codex", Dir)
  /\ call = NoCall
  /\ result = <<>>
  /\ SyncIdle
  /\ onPath = TRUE
  /\ promptFile = "hello"
  /\ prompt = << "hello" >>
  /\ cmd = << <<"codex">>, <<"exec">>, <<"--json">>, <<"hello">> >>
  /\ json_mode = << "result" >>
  /\ started = 0
  /\ exitcode = <<>>
  /\ ret = <<>>
  /\ budget = MaxLines
  /\ stream = <<>>
  /\ events = <<>>
  /\ non_json_lines = 0
  /\ out = <<>>

NextReduce == Popen \/ ReadLine \/ ChildExit \/ Reduce

SpecReduce == InitReduce /\ [][NextReduce]_vars

----------------------------------------------------------------------------
(* Claims about run_codex_json_result *)

TypeIs(e, ty) == "type" \in DOMAIN e.f /\ e.f["type"] = JStr(ty)

Least(S)    == CHOOSE i \in S : \A j \in S : i <= j
Greatest(S) == CHOOSE i \in S : \A j \in S : i >= j

\* positions of the events the three optional fields are read from
ThreadStarted(evs) == { i \in DOMAIN evs : TypeIs(evs[i], "thread.started") }
TurnCompleted(evs) == { i \in DOMAIN evs : TypeIs(evs[i], "turn.completed") }
AgentMessages(evs) ==
  { i \in DOMAIN evs :
      /\ TypeIs(evs[i], "item.completed")
      /\ "item" \in DOMAIN evs[i].f
      /\ TypeIs(evs[i].f["item"], "agent_message")
      /\ "text" \in DOMAIN evs[i].f["item"].f
      /\ evs[i].f["item"].f["text"] \notin { JStr(""), JNull } }

HasThreadId(evs) ==
  /\ ThreadStarted(evs) # {}
  /\ "thread_id" \in DOMAIN evs[Least(ThreadStarted(evs))].f
  /\ evs[Least(ThreadStarted(evs))].f["thread_id"] \notin { JStr(""), JNull }
HasUsage(evs) ==
  /\ TurnCompleted(evs) # {}
  /\ "usage" \in DOMAIN evs[Greatest(TurnCompleted(evs))].f
  /\ evs[Greatest(TurnCompleted(evs))].f["usage"] # JNull
HasFinalMessage(evs) == AgentMessages(evs) # {}

\* the summary the reference fold gives for a sequence of events
FoldMatches(summary, evs) ==
  /\ DOMAIN summary = BaseKeys \cup (IF HasThreadId(evs) THEN {"thread_id"} ELSE {})
                               \cup (IF HasUsage(evs) THEN {"usage"} ELSE {})
                               \cup (IF HasFinalMessage(evs) THEN {"final_message"} ELSE {})
  /\ summary["event_count"] = Len(evs)
  /\ HasThreadId(evs) => summary["thread_id"] = evs[Least(ThreadStarted(evs))].f["thread_id"]
  /\ HasUsage(evs) => summary["usage"] = evs[Greatest(TurnCompleted(evs))].f["usage"]
  /\ HasFinalMessage(evs) =>
       summary["final_message"] = evs[Greatest(AgentMessages(evs))].f["item"].f["text"]

Finished == pc \in {"done", "crashed"}

\* C9 (as stated): for every sequence of JSON-object events the reducer
\* produces a summary, and it is the reference fold: thread_id from the first
\* thread.started, usage from the last turn.completed, final_message from the
\* last agent message with text, an absent field omitted.
C9_SummaryIsFold ==
  (mode = "reduce" /\ Finished /\ \A i \in DOMAIN events : events[i].t = "obj") =>
     /\ pc = "done"
     /\ out # <<>>
     /\ out[Len(out)].level = "RESULT"
     /\ FoldMatches(out[Len(out)].arg, events)

\* C10 (as stated): whatever lines the subprocess wrote, each non-empty line
\* is counted once, as an event or as a non-JSON line, and after the
\* subprocess has exited one summary line is printed and its exit code
\* returned; no exception escapes.
C10_NoLineIsFatal ==
  (mode = "reduce" /\ Finished) =>
     /\ pc = "done"
     /\ Len(events) + non_json_lines = Cardinality({ i \in DOMAIN stream : stream[i] # "" })
     /\ Cardinality({ i \in DOMAIN out : out[i].level = "RESULT" }) = 1
     /\ ret = exitcode

----------------------------------------------------------------------------
(* Helpers of main *)

\* str.lower() on the atoms that have capitals
LowerMap ==
  "HIGH" :> "high" @@ "Medium" :> "medium" @@ "Bogus" :> "bogus" @@ "TRUE" :> "true"
  @@ "Yes" :> "yes" @@ "OFF" :> "off" @@ "Events" :> "events"

lower(s) == [i \in DOMAIN s |-> IF s[i] \in DOMAIN LowerMap THEN LowerMap[s[i]] ELSE s[i]]

env_truthy(e, name) ==
  lower(strip(getenv(e, name, <<>>))) \in { <<"1">>, <<"true">>, <<"yes">>, <<"on">> }

Quotes == {"'", "\""}

\* shlex.split(s): [ok, tokens]; ok = FALSE is ValueError (no closing quotation).
\* cur is the token being read, intok whether one is being read, quote the
\* open quote character or "".
RECURSIVE shlex_scan(_, _, _, _, _)
shlex_scan(rest, cur, intok, quote, acc) ==
  IF rest = <<>>
    THEN IF quote # "" THEN [ok |-> FALSE, tokens |-> acc]
         ELSE [ok |-> TRUE, tokens |-> IF intok THEN Append(acc, cur) ELSE acc]
  ELSE LET a == Head(rest)
       IN  IF quote # ""
             THEN IF a = quote THEN shlex_scan(Tail(rest), cur, TRUE, "", acc)
                  ELSE shlex_scan(Tail(rest), Append(cur, a), TRUE, quote, acc)
           ELSE IF a \in Whitespace
             THEN IF intok THEN shlex_scan(Tail(rest), <<>>, FALSE, "", Append(acc, cur))
                  ELSE shlex_scan(Tail(rest), cur, FALSE, "", acc)
           ELSE IF a \in Quotes
             THEN shlex_scan(Tail(rest), cur, TRUE, a, acc)
           ELSE shlex_scan(Tail(rest), Append(cur, a), TRUE, "", acc)

shlex_split(s) == shlex_scan(s, <<>>, FALSE, "", <<>>)

Range(q) == { q[i] : i \in DOMAIN q }

\* read_prompt() on each content of /code/prompt.json: [raised, value, isTrue]
read_prompt(pf) ==
  IF pf \in {"missing", "malformed", "array"}
    THEN [raised |-> TRUE, value |-> <<>>, isTrue |-> FALSE]
  ELSE IF pf = "hello" THEN [raised |-> FALSE, value |-> <<"hello">>, isTrue |-> TRUE]
  ELSE IF pf = "number_prompt" THEN [raised |-> FALSE, value |-> <<"5">>, isTrue |-> TRUE]
  ELSE [raised |-> FALSE, value |-> <<>>, isTrue |-> FALSE]

PromptFiles ==
  { "missing", "malformed", "array", "no_prompt", "empty_prompt", "null_prompt",
    "hello", "number_prompt" }

----------------------------------------------------------------------------
(* Command construction *)

\* cmd.extend(flags) unless the first of them is in cmd already
AddUnlessIn(c, flag, more) == IF flag \in Range(c) THEN c ELSE c \o <<flag>> \o more

\* claude main, lines 107-132: [raised, cmd]
claude_cmd(e, instruction) ==
  LET c0 == << <<"claude">>, <<"-p">>, <<"--dangerously-skip-permissions">>, <<"--model">>,
               getenv(e, "CLAUDE_MODEL", <<"opus">>) >>
      max_turns == strip(getenv(e, "CLAUDE_MAX_TURNS", <<>>))
      c1 == IF max_turns # <<>> THEN c0 \o << <<"--max-turns">>, max_turns >> ELSE c0
      c2 == IF env_truthy(e, "CLAUDE_TRAJECTORY")
              THEN AddUnlessIn(AddUnlessIn(AddUnlessIn(c1,
                     <<"--output-format">>, << <<"stream-json">> >>),
                     <<"--include-partial-messages">>, <<>>),
                     <<"--verbose">>, <<>>)
              ELSE c1
      extra_args == strip(getenv(e, "CLAUDE_EXEC_ARGS", <<>>))
      sp == IF extra_args # <<>> THEN shlex_split(extra_args) ELSE [ok |-> TRUE, tokens |-> <<>>]
  IN  [raised |-> ~sp.ok, cmd |-> c2 \o sp.tokens \o <<instruction>>]

\* reasoning_effort.replace("\\", "\\\\").replace('"', '\\"')
RECURSIVE escape(_)
escape(s) ==
  IF s = <<>> THEN <<>>
  ELSE (IF Head(s) = "\\" THEN <<"\\", "\\">>
        ELSE IF Head(s) = "\"" THEN <<"\\", "\"">>
        ELSE <<Head(s)>>) \o escape(Tail(s))

\* add_codex_tuning_args(cmd), lines 82-90
add_codex_tuning_args(e, c) ==
  LET model == strip(getenv(e, "CODEX_MODEL", <<>>))
      c1 == IF model # <<>> THEN c \o << <<"--model">>, model >> ELSE c
      reasoning_effort == strip(getenv(e, "CODEX_REASONING_EFFORT", <<>>))
  IN  IF reasoning_effort # <<>>
        THEN c1 \o << <<"-c">>,
                      <<"model_reasoning_effort=", "\"">> \o escape(reasoning_effort) \o <<"\"">> >>
        ELSE c1

\* lines 185-191: the JSON mode main settles on
codex_json_mode(e) ==
  LET m == lower(strip(getenv(e, "CODEX_JSON_MODE", <<"result">>)))
      v == IF m \notin { <<"result">>, <<"events">>, <<"off">> } THEN <<"result">> ELSE m
  IN  IF env_truthy(e, "CODEX_TRAJECTORY") THEN <<"events">> ELSE v

\* codex main, lines 171-196: [raised, cmd]
codex_cmd_args_first(e, instruction) ==
  LET extra_args == strip(getenv(e, "CODEX_EXEC_ARGS", <<>>))
      sp == IF extra_args # <<>> THEN shlex_split(extra_args) ELSE [ok |-> TRUE, tokens |-> <<>>]
      c1 == add_codex_tuning_args(e,
              << <<"codex">>, <<"exec">>, <<"--skip-git-repo-check">>,
                 <<"--dangerously-bypass-approvals-and-sandbox">>, <<"--ephemeral">> >> \o sp.tokens)
      c2 == IF codex_json_mode(e) # <<"off">> /\ <<"--json">> \notin Range(c1)
              THEN Append(c1, <<"--json">>) ELSE c1
  IN  [raised |-> ~sp.ok, cmd |-> Append(c2, instruction)]

codex_cmd(e, instruction) ==
  LET c0 == << <<"codex">>, <<"exec">>, <<"--skip-git-repo-check">>,
               <<"--dangerously-bypass-approvals-and-sandbox">>, <<"--ephemeral">> >>
      c1 == add_codex_tuning_args(e, c0)
      extra_args == strip(getenv(e, "CODEX_EXEC_ARGS", <<>>))
      sp == IF extra_args # <<>> THEN shlex_split(extra_args) ELSE [ok |-> TRUE, tokens |-> <<>>]
      c2 == c1 \o sp.tokens
      c3 == IF codex_json_mode(e) # <<"off">> /\ <<"--json">> \notin Range(c2)
              THEN Append(c2, <<"--json">>) ELSE c2
  IN  [raised |-> ~sp.ok, cmd |-> Append(c3, instruction)]

----------------------------------------------------------------------------
(* main *)

EffortVar(a) == IF a = "claude" THEN "CLAUDE_CODE_EFFORT_LEVEL" ELSE "CODEX_REASONING_EFFORT"
ModelVar(a)  == IF a = "claude" THEN "CLAUDE_MODEL" ELSE "CODEX_MODEL"
TrajVar(a)   == IF a = "claude" THEN "CLAUDE_TRAJECTORY" ELSE "CODEX_TRAJECTORY"
ArgsVar(a)   == IF a = "claude" THEN "CLAUDE_EXEC_ARGS" ELSE "CODEX_EXEC_ARGS"

\* one optional variable: unset, or set to one of vs
Opt(name, vs) == { {} } \cup { { <<name, v>> } : v \in vs }

EffortValues(a) ==
  IF a = "claude" THEN { << " ", "HIGH", " " >>, << "low" >>, << "Bogus" >>, << " " >> }
  ELSE { << "high" >>, << "Bogus" >>, << "a", "\"", "b" >> }

ArgsValues(a) ==
  { << " " >>, << "'", "oops" >>, << "--add-dir", " ", "'", "my", " ", "dir", "'" >> }
  \cup (IF a = "claude" THEN { << "--verbose" >> }
        ELSE { << "--json" >>, << "--color", " ", "never" >> })

\* the container's filesystem when main starts: nothing mounted; credentials
\* mounted under /host_auth; credentials mounted at the destination itself;
\* a directory where the first destination is to go
MainShapes(a) ==
  { [home |-> Absent, sub |-> Absent, d1 |-> Absent, s1 |-> Absent, s2 |-> Absent],
    [home |-> Absent, sub |-> Absent, d1 |-> Absent, s1 |-> File("k1"), s2 |-> File("k5")],
    [home |-> Dir, sub |-> Dir, d1 |-> File("old"), s1 |-> Absent, s2 |-> Absent],
    [home |-> Dir, sub |-> Dir, d1 |-> Dir, s1 |-> File("k1"), s2 |-> Absent] }

\* The initial slots.  The variables that only shape the command keep one
\* value when no command is built, the filesystem varies under the default
\* environment only, and a value that chooses what the unset variable
\* chooses varies alone.
MainSlots(a) ==
  { t \in [ effort : Opt(EffortVar(a), EffortValues(a)),
            model  : Opt(ModelVar(a), { << "sonnet" >> }),
            turns  : IF a = "claude" THEN Opt("CLAUDE_MAX_TURNS", { << " ", "7" >> }) ELSE { {} },
            traj   : Opt(TrajVar(a), { << "Yes" >>, << "0" >> }),
            args   : Opt(ArgsVar(a), ArgsValues(a)),
            jmode  : IF a = "codex"
                       THEN Opt("CODEX_JSON_MODE",
                                { << "OFF" >>, << "Events" >>, << "Bogus" >>, << " ", "result" >> })
                       ELSE { {} },
            onPath : BOOLEAN,
            promptFile : PromptFiles,
            shape  : MainShapes(a) ] :
      LET plain == t.model = {} /\ t.turns = {} /\ t.traj = {} /\ t.args = {} /\ t.jmode = {}
          alone(x) == \A y \in {t.effort, t.model, t.turns, t.traj, t.args, t.jmode} :
                         y = x \/ y = {}
      IN  /\ (~t.onPath \/ t.promptFile # "hello") => (plain /\ (a = "codex" => t.effort = {}))
          /\ t.traj = { <<TrajVar(a), << "0" >> >> } => alone(t.traj)
          /\ t.jmode = { <<"CODEX_JSON_MODE", << " ", "result" >> >> } => alone(t.jmode)
          /\ t.shape.home # Absent \/ t.shape.s1 # Absent =>
                (plain /\ t.effort = {} /\ t.onPath /\ t.promptFile = "hello") }

Init ==
  /\ mode = "main"
  /\ pc = "main"
  /\ adapter \in {"claude", "codex"}
  /\ \E t \in MainSlots(adapter) :
        /\ env = EnvFrom({ <<"HOME", Alt>> } \cup t.effort \cup t.model \cup t.turns
                         \cup t.traj \cup t.args \cup t.jmode)
        /\ fs = MkFs(adapter, t.shape.home, t.shape.sub, t.shape.d1, t.shape.s1,
                     Absent, t.shape.s2, Absent, Absent, Absent)
        /\ onPath = t.onPath
        /\ promptFile = t.promptFile
  /\ cwd = Code
  /\ call = NoCall
  /\ result = <<>>
  /\ SyncIdle
  /\ prompt = <<>>
  /\ cmd = <<>>
  /\ json_mode = <<>>
  /\ started = 0
  /\ exitcode = <<>>
  /\ ret = <<>>
  /\ budget = MainLines
  /\ stream = <<>>
  /\ events = <<>>
  /\ non_json_lines = 0
  /\ out = <<>>

\* lines 82-85 (claude), 154-157 (codex): pin HOME and XDG_CONFIG_HOME
Prepare ==
  /\ pc = "main"
  /\ LET e1 == setenv(env, "HOME", HomeOf(adapter))
         e2 == setenv(e1, "XDG_CONFIG_HOME", HomeOf(adapter) \o <<".config">>)
         m1 == makedirs(fs, cwd, e2["HOME"])
         m2 == makedirs(m1.fs, cwd, e2["XDG_CONFIG_HOME"])
     IN  /\ env' = e2
         /\ IF ~m1.ok THEN fs' = m1.fs /\ pc' = "crashed"
            ELSE IF ~m2.ok THEN fs' = m2.fs /\ pc' = "crashed"
            ELSE fs' = m2.fs /\ pc' = "sync"
  /\ UNCHANGED <<out, procVars, callVars, syncVars, mainVars, runVars>>

\* claude lines 90-96: the effort level
Tuning ==
  /\ pc = "tuning"
  /\ LET raw == lower(strip(getenv(env, "CLAUDE_CODE_EFFORT_LEVEL", <<>>)))
         bad == raw \notin { <<"low">>, <<"medium">>, <<"high">> }
         effort_level == IF bad THEN <<"high">> ELSE raw
     IN  /\ env' = setenv(env, "CLAUDE_CODE_EFFORT_LEVEL", effort_level)
         /\ out' = out
                   \o (IF bad /\ raw # <<>>
                         THEN << Warn("Invalid CLAUDE_CODE_EFFORT_LEVEL, defaulting to high", raw) >>
                         ELSE <<>>)
                   \o << Info("Claude effort level", effort_level) >>
  /\ pc' = "which"
  /\ UNCHANGED <<fs, procVars, callVars, syncVars, mainVars, runVars>>

\* lines 98-100 (claude), 162-164 (codex): shutil.which
CheckBinary ==
  /\ pc = "which"
  /\ IF onPath
       THEN pc' = "read_prompt" /\ UNCHANGED <<out, ret>>
       ELSE /\ out' = Append(out, Err("CLI not found in PATH", adapter))
            /\ ret' = <<1>>
            /\ pc' = "done"
  /\ UNCHANGED <<env, fs, procVars, callVars, syncVars, mainVars, started, exitcode, budget,
                 stream, events, non_json_lines>>

\* lines 102-105 (claude), 166-169 (codex)
ReadPrompt ==
  /\ pc = "read_prompt"
  /\ LET r == read_prompt(promptFile)
     IN  IF r.raised
           THEN pc' = "crashed" /\ UNCHANGED <<out, ret, prompt>>
         ELSE IF ~r.isTrue
           THEN /\ out' = Append(out, Err("Empty prompt in /code/prompt.json", <<>>))
                /\ ret' = <<1>>
                /\ pc' = "done"
                /\ UNCHANGED prompt
         ELSE /\ prompt' = r.value
              /\ pc' = "build"
              /\ UNCHANGED <<out, ret>>
  /\ UNCHANGED <<env, fs, procVars, callVars, syncVars, onPath, promptFile, cmd, json_mode,
                 started, exitcode, budget, stream, events, non_json_lines>>

\* lines 107-134 (claude), 171-198 (codex): the argument vector and the
\* way to run it
BuildCmd ==
  /\ pc = "build"
  /\ LET b == IF adapter = "claude" THEN claude_cmd(env, prompt) ELSE codex_cmd(env, prompt)
         jm == IF adapter = "claude" THEN <<>> ELSE codex_json_mode(env)
     IN  IF b.raised
           THEN pc' = "crashed" /\ UNCHANGED <<cmd, json_mode, out>>
           ELSE /\ cmd' = b.cmd
                /\ json_mode' = jm
                /\ out' = Append(out, Info("Running", SubSeq(b.cmd, 1, Len(b.cmd) - 1)))
                /\ pc' = IF jm = <<"result">> THEN "popen" ELSE "exec"
  /\ UNCHANGED <<env, fs, procVars, callVars, syncVars, onPath, promptFile, prompt, runVars>>

\* lines 135-136 (claude), 202-203 (codex): subprocess.run and its return code
RunDirect ==
  /\ pc = "exec"
  /\ IF promptFile = "number_prompt"
       THEN pc' = "crashed" /\ UNCHANGED <<started, exitcode, ret>>
       ELSE /\ started' = started + 1
            /\ \E rc \in ExitCodes : exitcode' = <<rc>> /\ ret' = <<rc>>
            /\ pc' = "done"
  /\ UNCHANGED <<env, fs, out, procVars, callVars, syncVars, mainVars, budget, stream, events,
                 non_json_lines>>

Next ==
  \/ Prepare \/ SyncStart \/ SyncStep \/ SyncEnd \/ Tuning \/ CheckBinary \/ ReadPrompt
  \/ BuildCmd \/ RunDirect \/ Popen \/ ReadLine \/ ChildExit \/ Reduce

Spec == Init /\ [][Next]_vars

----------------------------------------------------------------------------
(* Claims about main *)

\* main has returned or an exception has ended it
Ended == mode = "main" /\ pc \in {"done", "crashed"}

\* the `prompt` field of the prompt file is absent or empty
PromptEmpty == promptFile \in {"no_prompt", "empty_prompt", "null_prompt"}

\* C6: when main ends, it has returned 1 without starting a subprocess if the
\* binary is not on the path or the prompt field is absent or empty, and in
\* every other run it has started exactly one subprocess and returned that
\* subprocess's exit code.
C6_ExitCodeContract ==
  Ended =>
    IF ~onPath \/ PromptEmpty
      THEN pc = "done" /\ ret = <<1>> /\ started = 0
      ELSE pc = "done" /\ started = 1 /\ exitcode # <<>> /\ ret = exitcode

\* the argument vector has been built
Built == mode = "main" /\ cmd # <<>>

\* the tokens of the extra-arguments string
ExtraTokens ==
  LET extra_args == strip(getenv(env, ArgsVar(adapter), <<>>))
  IN  IF extra_args = <<>> THEN <<>> ELSE shlex_split(extra_args).tokens

\* the extra tokens stand in cmd with exactly k elements between them and the
\* final element
TokensAt(k) ==
  /\ Len(cmd) - 1 - k - Len(ExtraTokens) >= 0
  /\ SubSeq(cmd, Len(cmd) - k - Len(ExtraTokens), Len(cmd) - 1 - k) = ExtraTokens

\* C7 as stated: in both adapters the prompt is the final element of the
\* command vector and the extra-argument tokens are the elements immediately
\* before it.
C7_ArgsImmediatelyBeforePrompt ==
  Built => (cmd[Len(cmd)] = prompt /\ TokensAt(0))

\* C7, amended: the prompt is the final element of the command vector; in the
\* Claude adapter the extra-argument tokens immediately precede it; in the
\* Codex adapter they immediately precede it or are separated from it by one
\* "--json" element, the only one of the vector, which can happen only when
\* the JSON mode is not off.
C7_ArgsThenJsonThenPrompt ==
  Built =>
    /\ cmd[Len(cmd)] = prompt
    /\ \/ TokensAt(0)
       \/ /\ adapter = "codex"
          /\ json_mode # <<"off">>
          /\ cmd[Len(cmd) - 1] = <<"--json">>
          /\ <<"--json">> \notin Range(SubSeq(cmd, 1, Len(cmd) - 2))
          /\ TokensAt(1)

\* Codex has built a vector in which "--json" stands between the extra
\* tokens and the prompt
C7_Witness ==
  /\ Built
  /\ adapter = "codex"
  /\ Len(ExtraTokens) = 2
  /\ ~TokensAt(0)
  /\ TokensAt(1)
  /\ cmd[Len(cmd)] = prompt

\* the levels an effort setting may name (claude line 91)
EffortLevels == { <<"low">>, <<"medium">>, <<"high">> }
JsonModes == { <<"result">>, <<"events">>, <<"off">> }

\* the variable holds a non-empty value outside the set
Invalid(name, allowed) ==
  LET v == lower(strip(getenv(env, name, <<>>))) IN v # <<>> /\ v \notin allowed

\* this step logs a warning
WarnedNow == \E i \in DOMAIN out' : i > Len(out) /\ out'[i].level = "WARNING"

\* the vector built by this step carries the value of the variable
PassedOn(name) ==
  \E i \in DOMAIN cmd' : \E k \in 0..Len(cmd'[i]) :
     LET v == strip(getenv(env, name, <<>>))
     IN  k + Len(v) <= Len(cmd'[i]) /\ SubSeq(cmd'[i], k + 1, k + Len(v)) = v

\* C8: whenever CLAUDE_CODE_EFFORT_LEVEL, CODEX_REASONING_EFFORT or
\* CODEX_JSON_MODE holds a non-empty value outside its allow-set, the step
\* that handles it logs a warning, puts the default in its place, does not
\* pass the value to the CLI, and execution goes on.
C8_TuningValidated ==
  [][ /\ (pc = "tuning" /\ Invalid("CLAUDE_CODE_EFFORT_LEVEL", EffortLevels)) =>
           (WarnedNow /\ env'["CLAUDE_CODE_EFFORT_LEVEL"] = <<"high">> /\ pc' = "which")
      /\ (pc = "build" /\ adapter = "codex" /\ pc' # "crashed"
          /\ Invalid("CODEX_REASONING_EFFORT", EffortLevels)) =>
           (WarnedNow /\ ~PassedOn("CODEX_REASONING_EFFORT") /\ pc' \in {"popen", "exec"})
      /\ (pc = "build" /\ adapter = "codex" /\ pc' # "crashed"
          /\ Invalid("CODEX_JSON_MODE", JsonModes)) =>
           (WarnedNow /\ json_mode' \in JsonModes /\ pc' \in {"popen", "exec"})
    ]_vars

====
